---- MODULE Spec2Model ----
(***************************************************************************)
(* PromQL expression parser (src/src/expr.rs) and string-literal decoder   *)
(* (src/src/str.rs).                                                       *)
(*                                                                         *)
(* Input text is a sequence of characters, each a string.  Decoded output *)
(* is a sequence of bytes (integers 0..255).                              *)
(***************************************************************************)
EXTENDS Integers, Sequences, FiniteSets, TLC

VARIABLES
    s_entry,    \* which entry point of str.rs is being run: "rune" or "string"
    s_input,    \* the input handed to the entry point
    s_alt,      \* string(): index of the alternative of alt(()) being tried (1..3)
    s_phase,    \* "idle" | "open" | "body" | "close" | "done"
    s_rest,     \* remaining input of the running alternative
    s_acc,      \* chars_except(): fragments collected so far by many0
    s_result,   \* the IResult of the entry point, once s_phase = "done"
    e_input,    \* the input handed to expression()
    e_stack,    \* call stack of the recursive-descent parser (top = last)
    e_ret,      \* IResult returned by the callee that just finished
    e_phase     \* "idle" | "call" | "step" | "ret" | "done"

svars == <<s_entry, s_input, s_alt, s_phase, s_rest, s_acc, s_result>>
evars == <<e_input, e_stack, e_ret, e_phase>>
vars == <<s_entry, s_input, s_alt, s_phase, s_rest, s_acc, s_result,
          e_input, e_stack, e_ret, e_phase>>

----------------------------------------------------------------------------
(* Generic helpers on sequences.                                           *)

Drop(s, n) == SubSeq(s, n + 1, Len(s))

Take(s, n) == SubSeq(s, 1, n)

RECURSIVE Concat(_)
Concat(ss) == IF ss = <<>> THEN <<>> ELSE Head(ss) \o Concat(Tail(ss))

\* all sequences over S of length exactly n / at most n
RECURSIVE SeqsOfLen(_, _)
SeqsOfLen(S, n) ==
    IF n = 0 THEN {<<>>}
    ELSE {<<c>> \o t : c \in S, t \in SeqsOfLen(S, n - 1)}

SeqsUpTo(S, n) == UNION {SeqsOfLen(S, k) : k \in 0..n}

----------------------------------------------------------------------------
(* Characters.                                                             *)

LF == "\n"
BSL == "\\"
DQ == "\""
SQ == "'"
\* the backtick (the lexer of TLA+ reserves the character itself)
BT == "BACKTICK"

\* the byte a character of the input is stored as (AsBytes on ASCII text)
ByteOf(c) ==
    CASE c = LF -> 10  [] c = " " -> 32 [] c = DQ -> 34  [] c = SQ -> 39
      [] c = "+" -> 43 [] c = "-" -> 45 [] c = BSL -> 92 [] c = BT -> 96
      [] c = "0" -> 48 [] c = "1" -> 49 [] c = "2" -> 50 [] c = "3" -> 51
      [] c = "4" -> 52 [] c = "5" -> 53 [] c = "6" -> 54 [] c = "7" -> 55
      [] c = "8" -> 56 [] c = "9" -> 57
      [] c = "A" -> 65 [] c = "B" -> 66 [] c = "C" -> 67 [] c = "D" -> 68
      [] c = "E" -> 69 [] c = "F" -> 70 [] c = "U" -> 85
      [] c = "a" -> 97 [] c = "b" -> 98 [] c = "c" -> 99 [] c = "d" -> 100
      [] c = "e" -> 101 [] c = "f" -> 102 [] c = "g" -> 103 [] c = "n" -> 110
      [] c = "r" -> 114 [] c = "t" -> 116 [] c = "u" -> 117 [] c = "v" -> 118
      [] c = "x" -> 120

AsBytes(s) == [k \in 1..Len(s) |-> ByteOf(s[k])]

\* char::to_digit(radix) as used by from_str_radix: -1 when c is no digit
ToDigit(c, radix) ==
    LET v == CASE c \in {"0", "1", "2", "3", "4", "5", "6", "7", "8", "9"}
                    -> ByteOf(c) - 48
               [] c \in {"a", "b", "c", "d", "e", "f"} -> ByteOf(c) - 97 + 10
               [] c \in {"A", "B", "C", "D", "E", "F"} -> ByteOf(c) - 65 + 10
               [] OTHER -> -1
    IN  IF v >= 0 /\ v < radix THEN v ELSE -1

----------------------------------------------------------------------------
(* IResult of the nom 5 "complete" parsers of str.rs: Ok((rest, out)) or   *)
(* Err(Error(e)), e a VerboseError: a list of (input, kind) frames.        *)

Ok(rest, out) == [ok |-> TRUE, rest |-> rest, out |-> out, err |-> <<>>]

Err(frames) == [ok |-> FALSE, rest |-> <<>>, out |-> <<>>, err |-> frames]

Frame(at, kind) == [at |-> at, kind |-> kind]

\* ParseError::from_error_kind / from_char
ErrKind(at, kind) == Err(<<Frame(at, kind)>>)

\* character::complete::char(c)
char(c, i) ==
    IF i # <<>> /\ Head(i) = c THEN Ok(Tail(i), <<c>>)
    ELSE ErrKind(i, <<"Char", c>>)

\* bytes::complete::take(n)
take(n, i) ==
    IF Len(i) >= n THEN Ok(Drop(i, n), Take(i, n)) ELSE ErrKind(i, <<"Eof">>)

----------------------------------------------------------------------------
(* Integers of a fixed width.  A parsed number is kept as two 16-bit limbs *)
(* (hi * 65536 + lo), so that a u32 keeps all of its 32 bits.              *)

Num(hi, lo) == [hi |-> hi, lo |-> lo]

\* n * radix + d on limbs, exact
MulAdd(n, radix, d) ==
    LET low == n.lo * radix + d
    IN  Num(n.hi * radix + (low \div 65536), low % 65536)

RECURSIVE DigitsValue(_, _)
DigitsValue(ds, radix) ==
    IF ds = <<>> THEN Num(0, 0)
    ELSE MulAdd(DigitsValue(Take(ds, Len(ds) - 1), radix), radix,
                ToDigit(ds[Len(ds)], radix))

\* whether the limbs exceed an unsigned type of the given number of bits
Overflows(n, bits) ==
    IF bits = 8 THEN n.hi > 0 \/ n.lo > 255 ELSE n.hi > 65535

\* uN::from_str_radix(src, radix) of an unsigned type of `bits` bits: an
\* optional leading "+", then one or more digits of the radix, no overflow.
\* (The preceding String::from_utf8 never fails on the ASCII text modelled.)
from_str_radix(src, radix, bits) ==
    LET digits == IF src # <<>> /\ Head(src) = "+" THEN Tail(src) ELSE src
        valid == /\ digits # <<>>
                 /\ \A k \in 1..Len(digits) : ToDigit(digits[k], radix) >= 0
    IN  IF ~valid THEN [ok |-> FALSE, val |-> Num(0, 0)]
        ELSE LET v == DigitsValue(digits, radix)
             IN  IF Overflows(v, bits) THEN [ok |-> FALSE, val |-> Num(0, 0)]
                 ELSE [ok |-> TRUE, val |-> v]

\* fixed_length_radix!(I, type, len, radix): map_res(take(len), from_str_radix)
fixed_length_radix(bits, len, radix, i) ==
    LET t == take(len, i)
    IN  IF ~t.ok THEN t
        ELSE LET p == from_str_radix(t.out, radix, bits)
             IN  IF p.ok THEN Ok(t.rest, p.val) ELSE ErrKind(i, <<"MapRes">>)

\* char::encode_utf8 of a scalar value
encode_utf8(cp) ==
    IF cp < 128 THEN <<cp>>
    ELSE IF cp < 2048 THEN <<192 + (cp \div 64), 128 + (cp % 64)>>
    ELSE IF cp < 65536 THEN
        <<224 + (cp \div 4096), 128 + ((cp \div 64) % 64), 128 + (cp % 64)>>
    ELSE <<240 + (cp \div 262144), 128 + ((cp \div 4096) % 64),
           128 + ((cp \div 64) % 64), 128 + (cp % 64)>>

\* a conversion that only checks the upper limit
from_u32_range_only(n) ==
    IF n.hi > 16 THEN [some |-> FALSE, cp |-> 0]
    ELSE [some |-> TRUE, cp |-> n.hi * 65536 + n.lo]

\* char::from_u32: None for a surrogate and for a value above U+10FFFF
from_u32(n) ==
    IF n.hi > 16 \/ (n.hi = 0 /\ n.lo >= 55296 /\ n.lo <= 57343)
    THEN [some |-> FALSE, cp |-> 0]
    ELSE [some |-> TRUE, cp |-> n.hi * 65536 + n.lo]

validate_unicode_scalar(n) ==
    LET c == from_u32(n)
    IN  IF c.some THEN [some |-> TRUE, bytes |-> encode_utf8(c.cp)]
        ELSE [some |-> FALSE, bytes |-> <<>>]

----------------------------------------------------------------------------
(* rune: one escape sequence.                                              *)

\* map(char(c), |_| vec![byte])
SimpleEscape(c, byte, i) ==
    LET r == char(c, i) IN IF r.ok THEN Ok(r.rest, <<byte>>) ELSE r

\* map(fixed_length_radix!(I, u8, 3u8, 8), |n| vec![n])
OctalEscape(i) ==
    LET r == fixed_length_radix(8, 3, 8, i)
    IN  IF r.ok THEN Ok(r.rest, <<r.out.lo>>) ELSE r

\* map(preceded(char('x'), fixed_length_radix!(I, u8, 2u8, 16)), |n| vec![n])
HexEscape(i) ==
    LET c == char("x", i)
    IN  IF ~c.ok THEN c
        ELSE LET r == fixed_length_radix(8, 2, 16, c.rest)
             IN  IF r.ok THEN Ok(r.rest, <<r.out.lo>>) ELSE r

\* map_opt(preceded(char(letter), fixed_length_radix!(I, u32, len, 16)),
\*         validate_unicode_scalar)
UnicodeEscape(letter, len, i) ==
    LET c == char(letter, i)
    IN  IF ~c.ok THEN c
        ELSE LET r == fixed_length_radix(32, len, 16, c.rest)
             IN  IF ~r.ok THEN r
                 ELSE LET v == validate_unicode_scalar(r.out)
                      IN  IF v.some THEN Ok(r.rest, v.bytes)
                          ELSE ErrKind(i, <<"MapOpt">>)

\* the alternatives of rune's alt(()), in the order they are tried
RuneAlternatives(i) ==
    << SimpleEscape("a", 7, i),   SimpleEscape("b", 8, i),
       SimpleEscape("f", 12, i),  SimpleEscape("n", 10, i),
       SimpleEscape("r", 13, i),  SimpleEscape("t", 9, i),
       SimpleEscape("v", 11, i),  SimpleEscape(BSL, 92, i),
       SimpleEscape(SQ, 39, i),   SimpleEscape(DQ, 34, i),
       OctalEscape(i),            HexEscape(i),
       UnicodeEscape("u", 4, i),  UnicodeEscape("U", 8, i) >>

\* an alt that reports the error of its first alternative
alt_first_error(results, i) ==
    IF \E k \in 1..Len(results) : results[k].ok
    THEN results[CHOOSE k \in 1..Len(results) :
                    /\ results[k].ok
                    /\ \A j \in 1..(k - 1) : ~results[j].ok]
    ELSE Err(results[1].err \o <<Frame(i, <<"Alt">>)>>)

\* branch::alt: the first alternative that succeeds; when none does, the
\* error of the last one with an Alt frame for the input appended
alt(results, i) ==
    IF \E k \in 1..Len(results) : results[k].ok
    THEN results[CHOOSE k \in 1..Len(results) :
                    /\ results[k].ok
                    /\ \A j \in 1..(k - 1) : ~results[j].ok]
    ELSE Err(results[Len(results)].err \o <<Frame(i, <<"Alt">>)>>)

rune(input) ==
    LET c == char(BSL, input)
    IN  IF ~c.ok THEN c ELSE alt(RuneAlternatives(c.rest), c.rest)

\* a run that may be empty, as is_not's zero-length variant would take it
is_not_v_or_empty(arg, i) ==
    LET stops == {k \in 1..Len(i) : i[k] \in arg}
        n == IF stops = {} THEN Len(i)
             ELSE (CHOOSE k \in stops : \A j \in stops : k <= j) - 1
    IN  Ok(Drop(i, n), AsBytes(Take(i, n)))

\* is_not_v(arg): the longest non-empty run of characters not in arg
is_not_v(arg, i) ==
    LET stops == {k \in 1..Len(i) : i[k] \in arg}
        n == IF stops = {} THEN Len(i)
             ELSE (CHOOSE k \in stops : \A j \in stops : k <= j) - 1
    IN  IF n = 0 THEN ErrKind(i, <<"IsNot">>)
        ELSE Ok(Drop(i, n), AsBytes(Take(i, n)))

\* one element of chars_except's many0: alt((rune, is_not_v(arg)))
RuneOrRun(arg, i) == alt(<<rune(i), is_not_v(arg, i)>>, i)

----------------------------------------------------------------------------
(* string: the three literal forms, tried in order.  chars_except's many0  *)
(* runs one iteration per step.                                            *)

\* the delimiter of the alternative
Quote(a) == CASE a = 1 -> DQ [] a = 2 -> SQ [] a = 3 -> BT

\* arguments that leave the newline out of the quoted forms
ForbiddenNoNewline(a) ==
    CASE a = 1 -> {DQ, BSL} [] a = 2 -> {SQ, BSL} [] a = 3 -> {BT}

\* the argument of chars_except / is_not_v of the alternative
Forbidden(a) ==
    CASE a = 1 -> {LF, DQ, BSL} [] a = 2 -> {LF, SQ, BSL} [] a = 3 -> {BT}

\* an alternative of string's alt(()) failed with the frames err: the next
\* one starts over from the input; after the last one alt fails
AlternativeFailed(err) ==
    IF s_alt < 3
    THEN /\ s_alt' = s_alt + 1
         /\ s_phase' = "open"
         /\ s_rest' = s_input
         /\ s_acc' = <<>>
         /\ UNCHANGED s_result
    ELSE /\ s_phase' = "done"
         /\ s_result' = Err(err \o <<Frame(s_input, <<"Alt">>)>>)
         /\ UNCHANGED <<s_alt, s_rest, s_acc>>

\* delimited(char(q), .., ..): the opening delimiter
OpenQuote ==
    /\ s_entry = "string" /\ s_phase = "open"
    /\ LET r == char(Quote(s_alt), s_input)
       IN  IF r.ok
           THEN /\ s_phase' = "body"
                /\ s_rest' = r.rest
                /\ s_acc' = <<>>
                /\ UNCHANGED <<s_alt, s_result>>
           ELSE AlternativeFailed(r.err)
    /\ UNCHANGED <<s_entry, s_input, evars>>

\* chars_except: one iteration of many0(alt((rune, is_not_v(arg)))).  An
\* error of the element ends the loop with what was collected; an element
\* that consumed nothing is many0's own error.
Many0Step ==
    /\ s_entry = "string" /\ s_phase = "body" /\ s_alt \in {1, 2}
    /\ LET r == RuneOrRun(Forbidden(s_alt), s_rest)
       IN  IF ~r.ok
           THEN /\ s_phase' = "close"
                /\ UNCHANGED <<s_alt, s_rest, s_acc, s_result>>
           ELSE IF Len(r.rest) = Len(s_rest)
           THEN AlternativeFailed(<<Frame(s_rest, <<"Many0">>)>>)
           ELSE /\ s_rest' = r.rest
                /\ s_acc' = Append(s_acc, r.out)
                /\ UNCHANGED <<s_alt, s_phase, s_result>>
    /\ UNCHANGED <<s_entry, s_input, evars>>

\* the body of the raw form: is_not_v of the backtick, once
RawBody ==
    /\ s_entry = "string" /\ s_phase = "body" /\ s_alt = 3
    /\ LET r == is_not_v(Forbidden(3), s_rest)
       IN  IF r.ok
           THEN /\ s_phase' = "close"
                /\ s_rest' = r.rest
                /\ s_acc' = <<r.out>>
                /\ UNCHANGED <<s_alt, s_result>>
           ELSE AlternativeFailed(r.err)
    /\ UNCHANGED <<s_entry, s_input, evars>>

\* the closing delimiter; |s| s.concat() of the collected fragments
CloseQuote ==
    /\ s_entry = "string" /\ s_phase = "close"
    /\ LET r == char(Quote(s_alt), s_rest)
       IN  IF r.ok
           THEN /\ s_phase' = "done"
                /\ s_result' = Ok(r.rest, Concat(s_acc))
                /\ UNCHANGED <<s_alt, s_rest, s_acc>>
           ELSE AlternativeFailed(r.err)
    /\ UNCHANGED <<s_entry, s_input, evars>>

\* rune called on its own, as the unit tests do
RuneCall ==
    /\ s_entry = "rune" /\ s_phase = "open"
    /\ s_phase' = "done"
    /\ s_result' = rune(s_input)
    /\ UNCHANGED <<s_entry, s_input, s_alt, s_rest, s_acc, evars>>

NoResult == Err(<<>>)

StrStart(entry, input) ==
    /\ s_entry = entry
    /\ s_input = input
    /\ s_alt = 1
    /\ s_phase = "open"
    /\ s_rest = input
    /\ s_acc = <<>>
    /\ s_result = NoResult

StrIdle ==
    /\ s_entry = "none"
    /\ s_input = <<>>
    /\ s_alt = 1
    /\ s_phase = "idle"
    /\ s_rest = <<>>
    /\ s_acc = <<>>
    /\ s_result = NoResult

StrNext == OpenQuote \/ Many0Step \/ RawBody \/ CloseQuote \/ RuneCall

----------------------------------------------------------------------------
(* expr.rs: the AST and the IResult of the nom 3 macros, which is one of   *)
(* Done(rest, value), Error and Incomplete.                                *)

Operator(x, op, y) == [k |-> "Operator", l |-> x, op |-> op, r |-> y]

InstantVector(name) == [k |-> "InstantVector", v |-> name]

Scalar(text) == [k |-> "Scalar", v |-> text]

NoNode == [k |-> "None"]

Done(rest, val) == [st |-> "Done", rest |-> rest, val |-> val]

Error == [st |-> "Error", rest |-> <<>>, val |-> NoNode]

Incomplete == [st |-> "Incomplete", rest |-> <<>>, val |-> NoNode]

NoReturn == [st |-> "None", rest |-> <<>>, val |-> NoNode]

\* the separator of ws!: leading whitespace is skipped
RECURSIVE sp(_)
sp(i) == IF i # <<>> /\ Head(i) = " " THEN sp(Tail(i)) ELSE i

Lower(c) == CASE c = "N" -> "n" [] c = "A" -> "a" [] OTHER -> c

\* tag!(t): Error on a mismatch within the input at hand, Incomplete when
\* the input ends inside the tag
tag(t, i) ==
    LET m == IF Len(i) < Len(t) THEN Len(i) ELSE Len(t)
    IN  IF \E k \in 1..m : i[k] # t[k] THEN Error
        ELSE IF m < Len(t) THEN Incomplete
        ELSE Done(Drop(i, Len(t)), t)

tag_no_case(t, i) ==
    LET m == IF Len(i) < Len(t) THEN Len(i) ELSE Len(t)
    IN  IF \E k \in 1..m : Lower(i[k]) # Lower(t[k]) THEN Error
        ELSE IF m < Len(t) THEN Incomplete
        ELSE Done(Drop(i, Len(t)), Take(i, Len(t)))

\* char!(c)
char1(c, i) ==
    IF i = <<>> THEN Incomplete
    ELSE IF Head(i) = c THEN Done(Tail(i), <<c>>) ELSE Error

\* complete!: Incomplete becomes Error
complete(r) == IF r.st = "Incomplete" THEN Error ELSE r

\* the length of the longest prefix of i made of characters of S
RECURSIVE RunLen(_, _)
RunLen(S, i) == IF i # <<>> /\ Head(i) \in S THEN 1 + RunLen(S, Tail(i)) ELSE 0

DecDigits == {"0", "1", "2", "3", "4", "5", "6", "7", "8", "9"}

\* the letters of the modelled texts (metric names; the keywords are names too)
NameChars == {"a", "b", "c", "d", "e", "l", "n", "o", "r", "s", "u", "x", "y", "z"}

\* nom::digit: a non-empty run of decimal digits
digit(i) ==
    LET n == RunLen(DecDigits, i)
    IN  IF n = 0 THEN Error ELSE Done(Drop(i, n), Take(i, n))

\* nom::float: digits, a point, optional digits
float(i) ==
    LET n == RunLen(DecDigits, i)
        m == RunLen(DecDigits, Drop(i, n + 1))
    IN  IF n > 0 /\ Len(i) > n /\ i[n + 1] = "."
        THEN Done(Drop(i, n + 1 + m), Take(i, n + 1 + m))
        ELSE Error

\* vec::vector: the operand is opaque; a metric name stands for it
vector(i) ==
    LET n == RunLen(NameChars, i)
    IN  IF n = 0 THEN Error ELSE Done(Drop(i, n), Take(i, n))

\* map!(p, f)
MapNode(r, f(_)) == IF r.st = "Done" THEN Done(r.rest, f(r.val)) ELSE r

NaNNode(t) == Scalar(<<"NaN">>)

\* alt!: the first branch that is not an Error decides (Done or Incomplete)
RECURSIVE AltFirst(_)
AltFirst(rs) ==
    IF rs = <<>> THEN Error
    ELSE IF Head(rs).st # "Error" THEN Head(rs) ELSE AltFirst(Tail(rs))

\* the alternatives of atom that are leaves, in order
AtomLeaf(i) ==
    AltFirst(<< MapNode(tag_no_case(<<"N", "a", "N">>, i), NaNNode),
                MapNode(float(i), Scalar),
                MapNode(digit(i), Scalar),
                MapNode(vector(i), InstantVector) >>)

----------------------------------------------------------------------------
(* The precedence layers.                                                  *)

Layers == {"mul_div_mod", "plus_minus", "comparison", "and_unless", "or_op"}

\* $next of each left_op! layer
NextLayer(rule) ==
    CASE rule = "or_op" -> "and_unless"
      [] rule = "and_unless" -> "comparison"
      [] rule = "comparison" -> "plus_minus"
      [] rule = "plus_minus" -> "mul_div_mod"
      [] rule = "mul_div_mod" -> "power"

\* the comparison tags with the one-character tags tried first
LayerOpsShortFirst(rule) ==
    CASE rule = "mul_div_mod" ->
            << <<(<<"*">>), "Mul">>, <<(<<"/">>), "Div">>, <<(<<"%">>), "Mod">> >>
      [] rule = "plus_minus" ->
            << <<(<<"+">>), "Plus">>, <<(<<"-">>), "Minus">> >>
      [] rule = "comparison" ->
            << <<(<<"=", "=">>), "Eq">>, <<(<<"!", "=">>), "Ne">>,
               <<(<<"<">>), "Lt">>,      <<(<<">">>), "Gt">>,
               <<(<<"<", "=">>), "Le">>, <<(<<">", "=">>), "Ge">> >>
      [] rule = "and_unless" ->
            << <<(<<"a", "n", "d">>), "And">>,
               <<(<<"u", "n", "l", "e", "s", "s">>), "Unless">> >>
      [] rule = "or_op" ->
            << <<(<<"o", "r">>), "Or">> >>

\* $op of each left_op! layer: the tags of its alt!, in order, with the Op
LayerOps(rule) ==
    CASE rule = "mul_div_mod" ->
            << <<(<<"*">>), "Mul">>, <<(<<"/">>), "Div">>, <<(<<"%">>), "Mod">> >>
      [] rule = "plus_minus" ->
            << <<(<<"+">>), "Plus">>, <<(<<"-">>), "Minus">> >>
      [] rule = "comparison" ->
            << <<(<<"=", "=">>), "Eq">>, <<(<<"!", "=">>), "Ne">>,
               <<(<<"<", "=">>), "Le">>, <<(<<">", "=">>), "Ge">>,
               <<(<<"<">>), "Lt">>,      <<(<<">">>), "Gt">> >>
      [] rule = "and_unless" ->
            << <<(<<"a", "n", "d">>), "And">>,
               <<(<<"u", "n", "l", "e", "s", "s">>), "Unless">> >>
      [] rule = "or_op" ->
            << <<(<<"o", "r">>), "Or">> >>

\* alt!(tag!(..) => { |_| Op } | ..) on the input
RECURSIVE AltTags(_, _)
AltTags(ops, i) ==
    IF ops = <<>> THEN Error
    ELSE LET r == tag(Head(ops)[1], i)
         IN  IF r.st = "Done" THEN Done(r.rest, Head(ops)[2])
             ELSE IF r.st = "Incomplete" THEN Incomplete
             ELSE AltTags(Tail(ops), i)

LayerOp(rule, i) == AltTags(LayerOps(rule), i)

----------------------------------------------------------------------------
(* The parser as a machine: one stack frame per running named! parser.     *)
(*   rule  the parser; ph  where it stands; i0  the input it was called    *)
(*   on; i  the input of the running step; x, op  the values bound so far  *)

NewFrame(rule, i) ==
    [rule |-> rule, ph |-> "start", i0 |-> i, i |-> i, x |-> NoNode, op |-> "none"]

Top == e_stack[Len(e_stack)]

Pop == Take(e_stack, Len(e_stack) - 1)

SetTop(f) == [e_stack EXCEPT ![Len(e_stack)] = f]

\* the running parser calls parser rule on input i, its own frame becoming f
Call(f, rule, i) ==
    /\ e_stack' = Append(SetTop(f), NewFrame(rule, i))
    /\ e_phase' = "call"
    /\ e_ret' = NoReturn

\* the running parser returns r to its caller
Return(r) ==
    /\ e_stack' = Pop
    /\ e_phase' = "ret"
    /\ e_ret' = r

\* the running parser goes on with its next step, its frame becoming f
Step(f) ==
    /\ e_stack' = SetTop(f)
    /\ e_phase' = "step"
    /\ e_ret' = NoReturn

\* the fold with its operands exchanged
FoldSwapped(x, op, y) == Operator(y, op, x)

\* Node::operator(x, op, y) of the fold of left_op!
FoldLeft(x, op, y) == Operator(x, op, y)

\* Node::operator(x, Op::Pow, y) of power
PowNode(x, y) == Operator(x, "Pow", y)

\* power recursing into atom, which takes no further tag
PowerSuffixAtom == "atom"

\* the parser power recurses into after the tag
PowerSuffixRule == "power"

\* the parser between the parentheses of atom
ParenRule == "expression"

\* a closing parenthesis that may be left out
CloseParenOptional(i) ==
    IF i # <<>> /\ Head(i) = ")" THEN Done(Tail(i), <<")">>) ELSE Done(i, <<>>)

\* the closing char!(')') of atom's delimited!
CloseParen(i) == char1(")", i)

\* named!(pub expression <Node>, call!(or_op))
ExpressionCall ==
    /\ e_phase = "call" /\ Top.rule = "expression"
    /\ Call([Top EXCEPT !.ph = "or_op"], "or_op", Top.i)
    /\ UNCHANGED <<e_input, svars>>

ExpressionReturn ==
    /\ e_phase = "ret" /\ e_stack # <<>> /\ Top.rule = "expression"
    /\ Return(e_ret)
    /\ UNCHANGED <<e_input, svars>>

\* left_op!: x: $next
LayerCall ==
    /\ e_phase = "call" /\ Top.rule \in Layers
    /\ Call([Top EXCEPT !.ph = "first"], NextLayer(Top.rule), sp(Top.i))
    /\ UNCHANGED <<e_input, svars>>

\* left_op!: $next has returned the first operand; many0! starts after it
LayerFirstReturn ==
    /\ e_phase = "ret" /\ e_stack # <<>>
    /\ Top.rule \in Layers /\ Top.ph = "first"
    /\ IF e_ret.st = "Done"
       THEN Step([Top EXCEPT !.ph = "loop", !.x = e_ret.val, !.i = sp(e_ret.rest)])
       ELSE Return(e_ret)
    /\ UNCHANGED <<e_input, svars>>

\* many0!(tuple!($op, $next)): the loop ends on empty input and when $op is
\* an Error; an Incomplete $op makes many0! Incomplete
Many0End ==
    /\ e_phase = "step" /\ Top.rule \in Layers /\ Top.ph = "loop"
    /\ LET o == LayerOp(Top.rule, Top.i)
       IN  /\ ~(Top.i # <<>> /\ o.st = "Done")
           /\ IF Top.i # <<>> /\ o.st = "Incomplete"
              THEN Return(Incomplete)
              ELSE Return(Done(sp(Top.i), Top.x))
    /\ UNCHANGED <<e_input, svars>>

\* many0!(tuple!($op, $next)): $op matched, $next is called for the operand
Many0Op ==
    /\ e_phase = "step" /\ Top.rule \in Layers /\ Top.ph = "loop"
    /\ Top.i # <<>>
    /\ LET o == LayerOp(Top.rule, Top.i)
       IN  /\ o.st = "Done"
           /\ Call([Top EXCEPT !.ph = "operand", !.op = o.val],
                   NextLayer(Top.rule), o.rest)
    /\ UNCHANGED <<e_input, svars>>

\* many0!: the operand came back.  Done folds x = Node::operator(x, op, y)
\* and loops (an iteration that consumed nothing is many0!'s own Error);
\* an Error ends the loop before the operator; Incomplete is passed on
OperandReturn ==
    /\ e_phase = "ret" /\ e_stack # <<>>
    /\ Top.rule \in Layers /\ Top.ph = "operand"
    /\ IF e_ret.st = "Done"
       THEN IF Len(e_ret.rest) = Len(Top.i) THEN Return(Error)
            ELSE Step([Top EXCEPT !.ph = "loop", !.i = e_ret.rest, !.op = "none",
                                  !.x = FoldLeft(Top.x, Top.op, e_ret.val)])
       ELSE IF e_ret.st = "Error" THEN Return(Done(sp(Top.i), Top.x))
       ELSE Return(Incomplete)
    /\ UNCHANGED <<e_input, svars>>

\* power: x: atom
PowerCall ==
    /\ e_phase = "call" /\ Top.rule = "power"
    /\ Call([Top EXCEPT !.ph = "atom"], "atom", sp(Top.i))
    /\ UNCHANGED <<e_input, svars>>

\* power: y: opt!(complete!(preceded!(tag!("^"), power))), the tag
PowerAtomReturn ==
    /\ e_phase = "ret" /\ e_stack # <<>>
    /\ Top.rule = "power" /\ Top.ph = "atom"
    /\ IF e_ret.st # "Done" THEN Return(e_ret)
       ELSE LET i1 == sp(e_ret.rest)
                t == complete(tag(<<"^">>, i1))
            IN  IF t.st = "Done"
                THEN Call([Top EXCEPT !.ph = "suffix", !.x = e_ret.val, !.i = i1],
                          PowerSuffixRule, t.rest)
                ELSE Return(Done(i1, e_ret.val))
    /\ UNCHANGED <<e_input, svars>>

\* power: the recursive call came back; opt!(complete!(..)) turns anything
\* but Done into None, with the input as it was before the tag
PowerSuffixReturn ==
    /\ e_phase = "ret" /\ e_stack # <<>>
    /\ Top.rule = "power" /\ Top.ph = "suffix"
    /\ IF e_ret.st = "Done"
       THEN Return(Done(sp(e_ret.rest), PowNode(Top.x, e_ret.val)))
       ELSE Return(Done(Top.i, Top.x))
    /\ UNCHANGED <<e_input, svars>>

\* atom: a leaf alternative decides (Done or Incomplete)
AtomLeafReturn ==
    /\ e_phase = "call" /\ Top.rule = "atom"
    /\ LET r == AtomLeaf(sp(Top.i))
       IN  /\ r.st # "Error"
           /\ IF r.st = "Done" THEN Return(Done(sp(r.rest), r.val))
              ELSE Return(r)
    /\ UNCHANGED <<e_input, svars>>

\* atom: delimited!(char!('('), expression, char!(')')), the opening
AtomParen ==
    /\ e_phase = "call" /\ Top.rule = "atom"
    /\ AtomLeaf(sp(Top.i)).st = "Error"
    /\ LET c == char1("(", sp(Top.i))
       IN  IF c.st = "Done"
           THEN Call([Top EXCEPT !.ph = "paren"], ParenRule, sp(c.rest))
           ELSE Return(c)
    /\ UNCHANGED <<e_input, svars>>

\* atom: the expression between the parentheses came back; the closing
AtomParenReturn ==
    /\ e_phase = "ret" /\ e_stack # <<>>
    /\ Top.rule = "atom" /\ Top.ph = "paren"
    /\ IF e_ret.st # "Done" THEN Return(e_ret)
       ELSE LET c == CloseParen(sp(e_ret.rest))
            IN  IF c.st = "Done" THEN Return(Done(sp(c.rest), e_ret.val))
                ELSE Return(c)
    /\ UNCHANGED <<e_input, svars>>

\* the outermost parser has returned: e_ret is the result of the parse
Finish ==
    /\ e_phase = "ret" /\ e_stack = <<>>
    /\ e_phase' = "done"
    /\ UNCHANGED <<e_input, e_stack, e_ret, svars>>

ExprStart(input) ==
    /\ e_input = input
    /\ e_stack = <<NewFrame("expression", input)>>
    /\ e_ret = NoReturn
    /\ e_phase = "call"

ExprIdle ==
    /\ e_input = <<>>
    /\ e_stack = <<>>
    /\ e_ret = NoReturn
    /\ e_phase = "idle"

ExprNext ==
    \/ ExpressionCall \/ ExpressionReturn
    \/ LayerCall \/ LayerFirstReturn \/ Many0End \/ Many0Op \/ OperandReturn
    \/ PowerCall \/ PowerAtomReturn \/ PowerSuffixReturn
    \/ AtomLeafReturn \/ AtomParen \/ AtomParenReturn
    \/ Finish

----------------------------------------------------------------------------
(* The inputs the parsers are run on.                                      *)

MaxEscapeLen == 3
MaxItems == 3
MaxRaw == 3
MaxChain == 3

\* escapes: a backslash and any short text over these characters
EscapeChars == {"x", "+", "-", "g", "0", "3", "7", "8", "F"}

ShortEscapes == {<<BSL>> \o b : b \in SeqsUpTo(EscapeChars, MaxEscapeLen)}

\* \u and four hex digits
U4Digits == {"0", "7", "8", "d", "D", "e", "F", "f"}

U4Escapes == {<<BSL, "u">> \o d : d \in SeqsOfLen(U4Digits, 4)}

\* \U and eight hex digits
U8High == { <<"0", "0", "0", "0">>, <<"0", "0", "0", "1">>, <<"0", "0", "0", "F">>,
            <<"0", "0", "1", "0">>, <<"0", "0", "1", "1">>, <<"d", "e", "a", "d">>,
            <<"F", "F", "F", "F">> }

U8Low == SeqsOfLen({"0", "8", "D", "f"}, 4) \cup {<<"D", "E", "A", "D">>}

U8Escapes == {<<BSL, "U">> \o h \o l : h \in U8High, l \in U8Low}

RuneInputs == ShortEscapes \cup U4Escapes \cup U8Escapes

\* what the content of a quoted literal is made of: plain characters, the
\* newline, and escapes
ContentItems ==
    { <<"a">>, <<SQ>>, <<DQ>>, <<LF>>, <<BSL, "n">>, <<BSL, SQ>>, <<BSL, DQ>> }

\* the items a literal delimited by q can hold: not q itself, unescaped
ItemsFor(q) == ContentItems \ {<<q>>}

Quoted(q, items) == <<q>> \o Concat(items) \o <<q>>

QuotedInputs ==
    {Quoted(q, its) : q \in {DQ, SQ}, its \in SeqsUpTo(ContentItems, MaxItems)}

RawChars == {"a", "n", BSL, LF, DQ}

RawInputs ==
    {<<BT>> \o c \o <<BT>> \o t :
        c \in SeqsUpTo(RawChars, MaxRaw), t \in {<<>>, <<"a">>, <<BT>>}}

\* literals holding one \u or \U escape
SampleEscapes ==
    { <<BSL, "u", "0", "0", "4", "1">>, <<BSL, "u", "2", "2", "1", "e">>,
      <<BSL, "u", "D", "8", "0", "1">>, <<BSL, "u", "d", "F", "F", "F">>,
      <<BSL, "U", "0", "0", "0", "1", "F", "9", "1", "4">>,
      <<BSL, "U", "d", "e", "a", "d", "D", "E", "A", "D">>,
      <<BSL, "U", "0", "0", "1", "1", "0", "0", "0", "0">>,
      <<BSL, "U", "0", "0", "0", "0", "D", "8", "0", "0">> }

EscapeLiterals ==
    {<<q>> \o pre \o e \o post \o <<q>> :
        q \in {DQ, SQ}, pre \in {<<>>, <<"a">>}, post \in {<<>>, <<"a">>},
        e \in SampleEscapes}

StringInputs == QuotedInputs \cup RawInputs \cup EscapeLiterals

StrInit ==
    \/ \E t \in RuneInputs : StrStart("rune", t)
    \/ \E t \in StringInputs : StrStart("string", t)

\* the operators and the text of each
Ops == { "Pow", "Mul", "Div", "Mod", "Plus", "Minus", "Eq", "Ne", "Lt", "Gt",
         "Le", "Ge", "And", "Unless", "Or" }

OpText(op) ==
    CASE op = "Pow" -> <<"^">>
      [] op = "Mul" -> <<"*">>   [] op = "Div" -> <<"/">>  [] op = "Mod" -> <<"%">>
      [] op = "Plus" -> <<"+">>  [] op = "Minus" -> <<"-">>
      [] op = "Eq" -> <<"=", "=">> [] op = "Ne" -> <<"!", "=">>
      [] op = "Lt" -> <<"<">>    [] op = "Gt" -> <<">">>
      [] op = "Le" -> <<"<", "=">> [] op = "Ge" -> <<">", "=">>
      [] op = "And" -> <<"a", "n", "d">>
      [] op = "Unless" -> <<"u", "n", "l", "e", "s", "s">>
      [] op = "Or" -> <<"o", "r">>

\* the operators written with letters need blanks around them
WordOps == {"And", "Unless", "Or"}

\* the texts of the atoms the inputs are built from
AtomTexts == { <<"a">>, <<"7">> }

OtherAtomTexts == { <<"x", "y">>, <<"1", ".", "5">>, <<"n", "A", "N">>, <<"4", "2">> }

LP == <<"(">>

RP == <<")">>

\* tokens joined by sep
RECURSIVE Join(_, _)
Join(toks, sep) ==
    IF toks = <<>> THEN <<>>
    ELSE IF Len(toks) = 1 THEN toks[1]
    ELSE toks[1] \o sep \o Join(Tail(toks), sep)

Spaced(toks) == Join(toks, <<" ">>)

Tight(toks) == Join(toks, <<>>)

\* a op1 b op2 c
Triple(a, op1, b, op2, c) == <<a, OpText(op1), b, OpText(op2), c>>

\* (a op1 b) op2 c
ParenLeft(a, op1, b, op2, c) == <<LP, a, OpText(op1), b, RP, OpText(op2), c>>

\* a op1 (b op2 c)
ParenRight(a, op1, b, op2, c) == <<a, OpText(op1), LP, b, OpText(op2), c, RP>>

\* a0 op1 a1 op2 a2 .. opn an, the atoms taken in turn from two
RECURSIVE ChainToks(_, _, _)
ChainToks(ops, a, b) ==
    IF ops = <<>> THEN <<a>>
    ELSE <<a, OpText(Head(ops))>> \o ChainToks(Tail(ops), b, a)

\* the operators of one precedence level
Level(op) ==
    CASE op = "Pow" -> 6
      [] op \in {"Mul", "Div", "Mod"} -> 5
      [] op \in {"Plus", "Minus"} -> 4
      [] op \in {"Eq", "Ne", "Lt", "Gt", "Le", "Ge"} -> 3
      [] op \in {"And", "Unless"} -> 2
      [] op = "Or" -> 1

OpsOfLevel(n) == {op \in Ops : Level(op) = n}

ChainOps == UNION {SeqsUpTo(OpsOfLevel(n), MaxChain) : n \in 1..6}

TripleInputs ==
    {Spaced(Triple(a, op1, b, op2, c)) :
        a \in AtomTexts, b \in AtomTexts, c \in AtomTexts, op1 \in Ops, op2 \in Ops}

ParenInputs ==
    {Spaced(ParenLeft(a, op1, b, op2, c)) :
        a \in AtomTexts, b \in AtomTexts, c \in AtomTexts, op1 \in Ops, op2 \in Ops}
    \cup
    {Spaced(ParenRight(a, op1, b, op2, c)) :
        a \in AtomTexts, b \in AtomTexts, c \in AtomTexts, op1 \in Ops, op2 \in Ops}

ChainInputs == {Spaced(ChainToks(ops, <<"a">>, <<"7">>)) : ops \in ChainOps}

\* the same shapes without blanks, and with the other atoms
TightInputs ==
    {Tight(Triple(<<"a">>, op1, <<"b">>, op2, <<"c">>)) :
        op1 \in Ops \ WordOps, op2 \in Ops \ WordOps}
    \cup
    {Tight(ParenLeft(<<"a">>, op1, <<"b">>, op2, <<"c">>)) :
        op1 \in Ops \ WordOps, op2 \in Ops \ WordOps}

OtherAtomInputs ==
    {Spaced(Triple(a, op, b, op, c)) :
        a \in OtherAtomTexts, b \in OtherAtomTexts, c \in OtherAtomTexts,
        op \in {"Pow", "Plus", "Le", "And", "Or"}}

\* texts that end early: a parenthesis left open, an operator without operand
BrokenInputs ==
    {Spaced(<<LP, a, OpText(op), b>>) : a \in AtomTexts, b \in AtomTexts, op \in Ops}
    \cup {Spaced(<<LP, a>>) : a \in AtomTexts}
    \cup {Spaced(<<a, OpText(op), LP, b, OpText(op), a>>) :
             a \in AtomTexts, b \in AtomTexts, op \in Ops}
    \cup {Spaced(<<a, OpText(op)>>) : a \in AtomTexts, op \in Ops}
    \cup {Spaced(<<a, OpText(op), RP>>) : a \in AtomTexts, op \in Ops}

ExprInputs ==
    TripleInputs \cup ParenInputs \cup ChainInputs \cup TightInputs
    \cup OtherAtomInputs \cup BrokenInputs

----------------------------------------------------------------------------
(* The specifications: one parse on one input.  SpecStr runs str.rs (rune   *)
(* or string), SpecExpr runs expression of expr.rs.                        *)

InitStr == StrInit /\ ExprIdle

SpecStr == InitStr /\ [][StrNext]_vars

InitExpr == StrIdle /\ \E t \in ExprInputs : ExprStart(t)

SpecExpr == InitExpr /\ [][ExprNext]_vars

----------------------------------------------------------------------------
(* Properties of expression.                                               *)

\* the leaf an atom text stands for
LeafOf(t) ==
    IF t[1] \in DecDigits THEN Scalar(t)
    ELSE IF Len(t) = 3 /\ Lower(t[1]) = "n" /\ Lower(t[2]) = "a" /\ Lower(t[3]) = "n"
    THEN Scalar(<<"NaN">>)
    ELSE InstantVector(t)

\* the leaves of the chain ChainToks(ops, a, b)
ChainLeaves(ops, a, b) ==
    [k \in 1..(Len(ops) + 1) |-> IF k % 2 = 1 THEN LeafOf(a) ELSE LeafOf(b)]

\* ((l1 op1 l2) op2 l3) ..
RECURSIVE LeftTree(_, _, _)
LeftTree(acc, ops, leaves) ==
    IF ops = <<>> THEN acc
    ELSE LeftTree(Operator(acc, Head(ops), Head(leaves)), Tail(ops), Tail(leaves))

\* l1 op1 (l2 op2 (l3 ..))
RECURSIVE RightTree(_, _)
RightTree(ops, leaves) ==
    IF ops = <<>> THEN Head(leaves)
    ELSE Operator(Head(leaves), Head(ops), RightTree(Tail(ops), Tail(leaves)))

AtomTriples == AtomTexts \X AtomTexts \X AtomTexts

\* two operators of one left-associative level
SameLevelPairs ==
    {p \in Ops \X Ops : Level(p[1]) = Level(p[2]) /\ Level(p[1]) < 6}

\* <<lo, hi>>: hi binds tighter than lo
LoHiPairs == {p \in Ops \X Ops : Level(p[1]) < Level(p[2])}

\* each set below pairs an input with the tree it is claimed to parse to

LeftAssocCases ==
    {<< Spaced(Triple(t[1], p[1], t[2], p[2], t[3])),
        Operator(Operator(LeafOf(t[1]), p[1], LeafOf(t[2])), p[2], LeafOf(t[3])) >> :
        t \in AtomTriples, p \in SameLevelPairs}
    \cup
    {<< Spaced(ChainToks(ops, <<"a">>, <<"7">>)),
        LeftTree(LeafOf(<<"a">>), ops, Tail(ChainLeaves(ops, <<"a">>, <<"7">>))) >> :
        ops \in {c \in ChainOps : c # <<>> /\ Level(c[1]) < 6}}
    \cup
    {<< Tight(Triple(<<"a">>, p[1], <<"b">>, p[2], <<"c">>)),
        Operator(Operator(LeafOf(<<"a">>), p[1], LeafOf(<<"b">>)), p[2], LeafOf(<<"c">>)) >> :
        p \in {q \in SameLevelPairs : q[1] \notin WordOps}}

(* C1: every precedence layer other than power is left-associative: a      *)
(* op1 b op2 c with op1, op2 of one layer parses, all input consumed, to   *)
(* Operator(Operator(a, op1, b), op2, c), and a chain of n operators of    *)
(* one layer folds into the left-leaning tree, in the order of the text.   *)
C1_LeftAssociative ==
    e_phase = "done" =>
        \A c \in LeftAssocCases : e_input = c[1] => e_ret = Done(<<>>, c[2])

C1_Witness ==
    /\ e_phase = "done"
    /\ e_input = Spaced(Triple(<<"a">>, "Lt", <<"7">>, "Ge", <<"a">>))
    /\ e_ret.st = "Done"
    /\ e_ret.val.op = "Ge"
    /\ e_ret.val.l.op = "Lt"

RightAssocCases ==
    {<< Spaced(ChainToks(ops, a, b)), RightTree(ops, ChainLeaves(ops, a, b)) >> :
        ops \in {c \in ChainOps : c = <<>> \/ c[1] = "Pow"},
        a \in AtomTexts, b \in AtomTexts}
    \cup
    {<< Spaced(Triple(t[1], "Pow", t[2], "Pow", t[3])),
        Operator(LeafOf(t[1]), "Pow", Operator(LeafOf(t[2]), "Pow", LeafOf(t[3]))) >> :
        t \in AtomTriples \cup (OtherAtomTexts \X OtherAtomTexts \X OtherAtomTexts)}
    \cup
    { << <<"x", "^", "y", "^", "z">>,
         Operator(LeafOf(<<"x">>), "Pow",
                  Operator(LeafOf(<<"y">>), "Pow", LeafOf(<<"z">>))) >> }

(* C2: the power operator is right-associative: x^y^z parses to            *)
(* Operator(x, Pow, Operator(y, Pow, z)), a chain of n ^ to the            *)
(* right-leaning tree, and an atom no ^ follows to the atom itself.        *)
C2_PowerRightAssociative ==
    e_phase = "done" =>
        \A c \in RightAssocCases : e_input = c[1] => e_ret = Done(<<>>, c[2])

C2_Witness ==
    /\ e_phase = "done"
    /\ e_input = Spaced(Triple(<<"a">>, "Pow", <<"7">>, "Pow", <<"a">>))
    /\ e_ret.st = "Done"
    /\ e_ret.val.l = InstantVector(<<"a">>)
    /\ e_ret.val.r.op = "Pow"

PrecedenceCases ==
    {<< Spaced(Triple(t[1], p[1], t[2], p[2], t[3])),
        Operator(LeafOf(t[1]), p[1], Operator(LeafOf(t[2]), p[2], LeafOf(t[3]))) >> :
        t \in AtomTriples, p \in LoHiPairs}
    \cup
    {<< Spaced(Triple(t[1], p[2], t[2], p[1], t[3])),
        Operator(Operator(LeafOf(t[1]), p[2], LeafOf(t[2])), p[1], LeafOf(t[3])) >> :
        t \in AtomTriples, p \in LoHiPairs}
    \cup
    {<< Tight(Triple(<<"a">>, p[1], <<"b">>, p[2], <<"c">>)),
        Operator(LeafOf(<<"a">>), p[1], Operator(LeafOf(<<"b">>), p[2], LeafOf(<<"c">>))) >> :
        p \in {q \in LoHiPairs : q[1] \notin WordOps}}
    \cup
    {<< Tight(Triple(<<"a">>, p[2], <<"b">>, p[1], <<"c">>)),
        Operator(Operator(LeafOf(<<"a">>), p[2], LeafOf(<<"b">>)), p[1], LeafOf(<<"c">>)) >> :
        p \in {q \in LoHiPairs : q[1] \notin WordOps}}

(* C3: operators bind in the order pow > mul/div/mod > plus/minus >        *)
(* comparison > and/unless > or: with hi of a tighter layer than lo,       *)
(* a lo b hi c parses to Operator(a, lo, Operator(b, hi, c)) and           *)
(* a hi b lo c to Operator(Operator(a, hi, b), lo, c); the two-character   *)
(* comparisons give Le and Ge, never Lt or Gt.                             *)
C3_Precedence ==
    e_phase = "done" =>
        \A c \in PrecedenceCases : e_input = c[1] => e_ret = Done(<<>>, c[2])

C3_Witness ==
    /\ e_phase = "done"
    /\ e_input = Spaced(Triple(<<"a">>, "And", <<"7">>, "Le", <<"a">>))
    /\ e_ret.st = "Done"
    /\ e_ret.val.op = "And"
    /\ e_ret.val.r.op = "Le"

ParenCases ==
    {<< Spaced(ParenLeft(t[1], p[1], t[2], p[2], t[3])),
        Operator(Operator(LeafOf(t[1]), p[1], LeafOf(t[2])), p[2], LeafOf(t[3])) >> :
        t \in AtomTriples, p \in Ops \X Ops}
    \cup
    {<< Spaced(ParenRight(t[1], p[1], t[2], p[2], t[3])),
        Operator(LeafOf(t[1]), p[1], Operator(LeafOf(t[2]), p[2], LeafOf(t[3]))) >> :
        t \in AtomTriples, p \in Ops \X Ops}
    \cup
    {<< Tight(ParenLeft(<<"a">>, p[1], <<"b">>, p[2], <<"c">>)),
        Operator(Operator(LeafOf(<<"a">>), p[1], LeafOf(<<"b">>)), p[2], LeafOf(<<"c">>)) >> :
        p \in (Ops \ WordOps) \X (Ops \ WordOps)}

\* texts whose only atom is a parenthesis that is never closed
UnclosedCases ==
    {Spaced(<<LP, a, OpText(op), b>>) : a \in AtomTexts, b \in AtomTexts, op \in Ops}
    \cup {Spaced(<<LP, a>>) : a \in AtomTexts}

(* C4: parentheses override precedence and associativity: (a op1 b) op2 c  *)
(* parses to Operator(Operator(a, op1, b), op2, c) and a op1 (b op2 c) to  *)
(* Operator(a, op1, Operator(b, op2, c)) whatever the layers of op1 and    *)
(* op2, and an atom whose parenthesis is not closed fails.                 *)
C4_Parentheses ==
    e_phase = "done" =>
        /\ \A c \in ParenCases : e_input = c[1] => e_ret = Done(<<>>, c[2])
        /\ e_input \in UnclosedCases => e_ret.st # "Done"

C4_Witness ==
    /\ e_phase = "done"
    /\ e_input = Spaced(ParenRight(<<"a">>, "Mul", <<"7">>, "Or", <<"a">>))
    /\ e_ret.st = "Done"
    /\ e_ret.val.op = "Mul"
    /\ e_ret.val.r.op = "Or"

----------------------------------------------------------------------------
(* Properties of rune and string.  The expected values are computed here   *)
(* from the text of the escape, apart from the decoder's own operators.    *)

HexLower == <<"0", "1", "2", "3", "4", "5", "6", "7", "8", "9",
              "a", "b", "c", "d", "e", "f">>

HexUpper == <<"0", "1", "2", "3", "4", "5", "6", "7", "8", "9",
              "A", "B", "C", "D", "E", "F">>

IsHexDigit(c) == \E k \in 1..16 : HexLower[k] = c \/ HexUpper[k] = c

HexDigitValue(c) == (CHOOSE k \in 1..16 : HexLower[k] = c \/ HexUpper[k] = c) - 1

IsOctalDigit(c) == \E k \in 1..8 : HexLower[k] = c

\* the value of a run of at most four hex digits
RECURSIVE HexRunValue(_)
HexRunValue(ds) ==
    IF ds = <<>> THEN 0
    ELSE HexRunValue(Take(ds, Len(ds) - 1)) * 16 + HexDigitValue(ds[Len(ds)])

\* the upper and the lower 16 bits of the value a \u or \U escape spells
EscapeHigh(e) == IF Len(e) = 10 THEN HexRunValue(SubSeq(e, 3, 6)) ELSE 0

EscapeLow(e) == HexRunValue(SubSeq(e, Len(e) - 3, Len(e)))

\* a Unicode scalar value: at most 0x10FFFF and no surrogate
IsScalarValue(hi, lo) == hi <= 16 /\ ~(hi = 0 /\ lo >= 55296 /\ lo <= 57343)

IsContinuation(b) == b >= 128 /\ b <= 191

\* bytes is the UTF-8 encoding of the scalar value cp: the shortest form
IsUtf8Of(bytes, cp) ==
    IF cp < 128 THEN bytes = <<cp>>
    ELSE IF cp < 2048 THEN
        /\ Len(bytes) = 2
        /\ bytes[1] >= 192 /\ bytes[1] <= 223 /\ IsContinuation(bytes[2])
        /\ (bytes[1] - 192) * 64 + (bytes[2] - 128) = cp
    ELSE IF cp < 65536 THEN
        /\ Len(bytes) = 3
        /\ bytes[1] >= 224 /\ bytes[1] <= 239
        /\ IsContinuation(bytes[2]) /\ IsContinuation(bytes[3])
        /\ (bytes[1] - 224) * 4096 + (bytes[2] - 128) * 64 + (bytes[3] - 128) = cp
    ELSE
        /\ Len(bytes) = 4
        /\ bytes[1] >= 240 /\ bytes[1] <= 247
        /\ IsContinuation(bytes[2]) /\ IsContinuation(bytes[3])
        /\ IsContinuation(bytes[4])
        /\ (bytes[1] - 240) * 262144 + (bytes[2] - 128) * 4096
               + (bytes[3] - 128) * 64 + (bytes[4] - 128) = cp

\* the escape \xHH that spells the byte b
HexSpelling(b) == <<BSL, "x", HexLower[(b \div 16) + 1], HexLower[(b % 16) + 1]>>

\* what rune makes of the bytes spelled one by one as \xHH
SpelledAsHex(bytes) ==
    Concat([k \in 1..Len(bytes) |-> rune(HexSpelling(bytes[k])).out])

\* a literal q pre e post q with one \u or \U escape e
EscapeLiteralParts ==
    {<<q, pre, e, post>> :
        q \in {<<DQ>>, <<SQ>>}, pre \in {<<>>, <<"a">>}, e \in SampleEscapes,
        post \in {<<>>, <<"a">>}}

(* C5: for every 4 hex digits after \u and every 8 hex digits after \U,    *)
(* rune succeeds exactly when the value is a Unicode scalar value; on      *)
(* success it consumes the escape and yields the UTF-8 encoding of the     *)
(* value, the same bytes as their \xHH spelling yields; a quoted literal   *)
(* holding an escape of an invalid value fails as a whole, and one holding *)
(* a valid escape yields the encoding between its other bytes.             *)
C5_UnicodeEscapes ==
    s_phase = "done" =>
        /\ (s_entry = "rune" /\ s_input \in U4Escapes \cup U8Escapes) =>
               LET hi == EscapeHigh(s_input)
                   lo == EscapeLow(s_input)
               IN  /\ s_result.ok <=> IsScalarValue(hi, lo)
                   /\ s_result.ok =>
                          /\ s_result.rest = <<>>
                          /\ IsUtf8Of(s_result.out, hi * 65536 + lo)
                          /\ SpelledAsHex(s_result.out) = s_result.out
        /\ s_entry = "string" =>
               \A p \in EscapeLiteralParts :
                   s_input = p[1] \o p[2] \o p[3] \o p[4] \o p[1] =>
                       LET hi == EscapeHigh(p[3])
                           lo == EscapeLow(p[3])
                           n  == Len(s_result.out)
                       IN  IF IsScalarValue(hi, lo)
                           THEN /\ s_result.ok
                                /\ s_result.rest = <<>>
                                /\ n >= Len(p[2]) + Len(p[4])
                                /\ Take(s_result.out, Len(p[2])) = AsBytes(p[2])
                                /\ Drop(s_result.out, n - Len(p[4])) = AsBytes(p[4])
                                /\ IsUtf8Of(SubSeq(s_result.out, Len(p[2]) + 1,
                                                   n - Len(p[4])),
                                            hi * 65536 + lo)
                           ELSE ~s_result.ok

C5_Witness ==
    /\ s_phase = "done"
    /\ s_entry = "rune"
    /\ s_input = <<BSL, "u", "D", "7", "f", "F">>
    /\ s_result.ok
    /\ s_result.out = <<237, 159, 191>>

\* the characters after the backslash are three octal digits
IsOctalRun(b) == Len(b) = 3 /\ \A k \in 1..3 : IsOctalDigit(b[k])

\* the characters after the backslash are x and two hex digits
IsHexRun(b) == Len(b) = 3 /\ b[1] = "x" /\ IsHexDigit(b[2]) /\ IsHexDigit(b[3])

(* C6: the byte escapes accept exactly their digit runs: \NNN with three   *)
(* octal digits yields the one byte of the octal value, \xHH with two hex  *)
(* digits yields the one byte of the hex value, and a run that is too      *)
(* short or holds a character that is no digit of the radix is not         *)
(* decoded: rune fails when no other alternative applies.                  *)
C6_ByteEscapesExact ==
    (s_phase = "done" /\ s_entry = "rune" /\ s_input \in ShortEscapes) =>
        LET b == Tail(s_input)
        IN  /\ IsOctalRun(b) =>
                   /\ s_result.ok
                   /\ s_result.out = << HexDigitValue(b[1]) * 64
                                        + HexDigitValue(b[2]) * 8
                                        + HexDigitValue(b[3]) >>
            /\ IsHexRun(b) =>
                   /\ s_result.ok
                   /\ s_result.out = << HexDigitValue(b[2]) * 16
                                        + HexDigitValue(b[3]) >>
            /\ ~(IsOctalRun(b) \/ IsHexRun(b)) => ~s_result.ok

\* the contents and the tails of the raw literals tried
RawCases == SeqsUpTo(RawChars, MaxRaw) \X {<<>>, <<"a">>, <<BT>>}

(* C7: raw strings are passed through verbatim: for every content c with   *)
(* no backtick, of any length, zero included, string on backtick c         *)
(* backtick succeeds, returns the bytes of c with backslashes and newlines *)
(* unchanged, and leaves the input just past the closing backtick.         *)
C7_RawVerbatim ==
    (s_phase = "done" /\ s_entry = "string") =>
        \A p \in RawCases :
            s_input = <<BT>> \o p[1] \o <<BT>> \o p[2] =>
                /\ s_result.ok
                /\ s_result.out = AsBytes(p[1])
                /\ s_result.rest = p[2]

\* the delimiter and the items of the quoted literals tried
QuotedCases ==
    UNION {{<<q, its>> : its \in SeqsUpTo(ItemsFor(q), MaxItems)} : q \in {DQ, SQ}}

\* the bytes an item of a quoted literal stands for
ItemBytes(it) ==
    CASE it = <<"a">> -> <<97>>
      [] it = <<SQ>> -> <<39>>
      [] it = <<DQ>> -> <<34>>
      [] it = <<BSL, "n">> -> <<10>>
      [] it = <<BSL, SQ>> -> <<39>>
      [] it = <<BSL, DQ>> -> <<34>>
      [] OTHER -> <<>>

HasNewline(its) == \E k \in 1..Len(its) : its[k] = <<LF>>

(* C8: a single-quoted or double-quoted literal whose content holds an     *)
(* unescaped newline at any position fails, with no partial result, while  *)
(* without one it succeeds and \n decodes to the byte 0x0a, \' to 0x27 and *)
(* \" to 0x22 whichever quote delimits the literal.                        *)
C8_NewlineRejected ==
    (s_phase = "done" /\ s_entry = "string") =>
        \A c \in QuotedCases :
            s_input = Quoted(c[1], c[2]) =>
                IF HasNewline(c[2])
                THEN ~s_result.ok /\ s_result.out = <<>>
                ELSE /\ s_result.ok
                     /\ s_result.rest = <<>>
                     /\ s_result.out =
                            Concat([k \in 1..Len(c[2]) |-> ItemBytes(c[2][k])])

C8_Witness ==
    /\ s_phase = "done"
    /\ s_entry = "string"
    /\ s_input = Quoted(DQ, << <<BSL, SQ>>, <<LF>>, <<BSL, "n">> >>)
    /\ ~s_result.ok

\* the kinds of the frames of a failure, in order
Kinds(err) == [k \in 1..Len(err) |-> err[k].kind]

\* escapes with a short or malformed digit run or an unrecognized letter
SyntaxFailures ==
    {e \in ShortEscapes : ~rune(e).ok}
    \cup { <<BSL, "u", "0">>, <<BSL, "u", "g", "0", "0", "0">>,
           <<BSL, "U", "0", "0">>,
           <<BSL, "U", "g", "0", "0", "0", "0", "0", "0", "0">> }

SyntaxFailureKinds == {Kinds(rune(e).err) : e \in SyntaxFailures}

----------------------------------------------------------------------------
(* Termination: both parsers on every text over a small alphabet, up to a  *)
(* length, and expression on the unspaced triples.  A parse runs on its    *)
(* own; nothing but its own steps can delay it, so a step that can be      *)
(* taken is taken (weak fairness of Next).                                 *)

MaxStrLen == 4

MaxExprLen == 4

TermStrChars == {DQ, BT, BSL, LF, "a", "n"}

TermExprChars == {"a", "+", "^", "(", ")", " "}

TermStrInputs == SeqsUpTo(TermStrChars, MaxStrLen)

TermExprInputs == SeqsUpTo(TermExprChars, MaxExprLen)

InitTerm ==
    \/ ExprIdle /\ \E t \in TermStrInputs : StrStart("string", t)
    \/ ExprIdle /\ \E t \in TermStrInputs : StrStart("rune", t)
    \/ StrIdle /\ \E t \in TermExprInputs \cup TightInputs : ExprStart(t)

Next == StrNext \/ ExprNext

SpecTerm == InitTerm /\ [][Next]_vars /\ WF_vars(Next)

\* an iteration of chars_except's many0 whose element matched goes on with
\* the loop on a shorter input
StringIterationConsumes ==
    (/\ s_entry = "string" /\ s_phase = "body" /\ s_alt \in {1, 2}
     /\ RuneOrRun(Forbidden(s_alt), s_rest).ok)
        => (s_phase' = "body" /\ Len(s_rest') < Len(s_rest))

\* an operator-and-operand pair of a layer's many0! that matched has left
\* less input than the iteration started with
LayerIterationConsumes ==
    (/\ e_phase = "ret" /\ e_stack # <<>>
     /\ Top.rule \in Layers /\ Top.ph = "operand" /\ e_ret.st = "Done")
        => Len(e_ret.rest) < Len(Top.i)

\* power entered from power and expression entered from atom start on less
\* input than the parser that entered them
ReentryConsumes ==
    \A k \in 2..Len(e_stack) :
        (\/ e_stack[k].rule = "power" /\ e_stack[k - 1].rule = "power"
         \/ e_stack[k].rule = "expression" /\ e_stack[k - 1].rule = "atom")
            => Len(e_stack[k].i0) < Len(e_stack[k - 1].i0)

Terminated == s_phase = "done" \/ e_phase = "done"

(* C10: every parse terminates: each iteration of a repetition consumes at *)
(* least one character, power re-enters power and atom re-enters           *)
(* expression only on a shorter input, and expression and string always    *)
(* reach a result.                                                         *)
C10_Terminates ==
    /\ [][StringIterationConsumes]_vars
    /\ []LayerIterationConsumes
    /\ []ReentryConsumes
    /\ <>Terminated

C10_Witness ==
    /\ e_phase = "done"
    /\ e_input = Tight(ParenLeft(<<"a">>, "Pow", <<"b">>, "Plus", <<"c">>))
    /\ e_ret.st = "Done"
    /\ e_ret.val.op = "Plus"
    /\ e_ret.val.l.op = "Pow"

====
